---------------------------- MODULE Spec2Model ----------------------------
(***************************************************************************)
(* A model of the pMapper scheduler of src/Scheduler.cpp: the static state *)
(* of the translation unit, the event handlers the simulator calls         *)
(* (Init, NewTask, TaskComplete, PeriodicCheck, MigrationComplete,         *)
(* MemoryWarning, StateChangeComplete) and the two procedures they share   *)
(* (PlaceTask_PMapper, OffloadTaskFromMachine).                            *)
(*                                                                         *)
(* The simulator itself (machines, VMs, tasks) is the collaborator of the  *)
(* scheduler.  Its state is kept in the variables machines, s_state,       *)
(* pending, vmHost, vmKind, simTasks, taskInfo, arrived, done, warnings    *)
(* and clock; what the scheduler computes from it is only what the calls   *)
(* in Scheduler.cpp read (Machine_GetInfo, GetTaskMemory, RequiredCPUType) *)
(* or command (Machine_SetState, VM_Create, VM_Attach, VM_AddTask,         *)
(* VM_RemoveTask).                                                         *)
(***************************************************************************)
EXTENDS Integers, Sequences, FiniteSets, TLC

VARIABLES
    \* ---- static state of Scheduler.cpp ----
    sorted_machines,        \* vector<MachineId_t>
    machine_util,           \* vector<unsigned>, indexed by machine id
    machine_mem_usage,      \* vector<unsigned>
    machine_mem_capacity,   \* vector<unsigned>
    vms,                    \* vector<VMId_t>
    vm_location,            \* unordered_map<VMId_t, MachineId_t>
    vm_tasks,               \* unordered_map<VMId_t, vector<TaskId_t>>
    offloading_in_progress, \* bool
    migrating,              \* bool
    idle_start_time,        \* the static unordered_map of PeriodicCheck
    \* ---- the simulator (collaborator) ----
    machines,               \* machine id -> [cpu, memory_size, memory_used, energy]
    s_state,                \* machine id -> the s_state Machine_GetInfo reports
    pending,                \* machine id -> the state change in progress, or "none"
    vmHost,                 \* VM id -> the machine VM_Attach put it on
    vmKind,                 \* VM id -> [vm_type, cpu] given to VM_Create
    simTasks,               \* VM id -> the tasks VM_AddTask put on it
    taskInfo,               \* task id + 1 -> [cpu, vm, mem]: the workload
    arrived,                \* number of tasks NewTask was called for (ids 0..arrived-1)
    done,                   \* the tasks TaskComplete was called for
    warnings,               \* number of MemoryWarning events so far
    clock,                  \* the time of the latest event
    \* ---- the run ----
    phase,                  \* "constructed" | "running" | "crashed"
    trace                   \* what the latest handler commanded and logged

vars == << sorted_machines, machine_util, machine_mem_usage, machine_mem_capacity,
           vms, vm_location, vm_tasks, offloading_in_progress, migrating,
           idle_start_time, machines, s_state, pending, vmHost, vmKind, simTasks,
           taskInfo, arrived, done, warnings, clock, phase, trace >>

schedVars == << sorted_machines, machine_util, machine_mem_usage, machine_mem_capacity,
                vms, vm_location, vm_tasks, offloading_in_progress, migrating,
                idle_start_time >>

-----------------------------------------------------------------------------
(* Program constants. *)

INVALID_VM == -1

active_machines == 16

\* A faulty MAX_TASKS_PER_VM, one too high: C2 fails with it.
MAX_TASKS_PER_VM_Raised == 10 + 1

MAX_TASKS_PER_VM == 10

IDLE_GRACE_PERIOD == 100000

\* A faulty max_attempts, one too high: C12 fails with it.
max_attempts_Raised == 3 + 1

max_attempts == 3

\* (MachineId_t)(-1): the original_machine NewTask passes and the "no target" of
\* the offload search.
NoMachine == -1

(* Bounds of the model. *)

\* unsigned arithmetic wraps: machine_mem_usage[m] + taskMem is taken modulo
\* UINT_MAX + 1.  TLC's integers have 32 bits, so the model's unsigned is
\* narrower than the program's; the memory sizes of the inputs stay below it.
UnsignedModulus == 256

\* Filler machines of the large cluster, which has more than active_machines
\* machines.
NumFillers == 15

\* Tasks of the uniform workload (more than MAX_TASKS_PER_VM).
ManyTasks == 11

\* Tasks that complete in one run.
MaxCompletions == 1

\* MemoryWarning events in one run.
MaxWarnings == 1

\* PeriodicCheck events are TickLen apart or a multiple of it; the clock stops
\* at MaxTicks * TickLen.
MaxTicks == 3

TickLen == IDLE_GRACE_PERIOD \div 2

-----------------------------------------------------------------------------
(* The inputs: clusters and workloads.  A cluster is a few machines written *)
(* out, followed by a number of identical filler machines.                  *)

Mach(cpu, size, used, st, energy) ==
    [cpu |-> cpu, memory_size |-> size, memory_used |-> used, s_state |-> st,
     energy |-> energy]

Task(cpu, vm, mem) == [cpu |-> cpu, vm |-> vm, mem |-> mem]

\* Two X86 machines short of memory and an ARM machine that is off and ties
\* with the second in energy.
ClusterTight ==
    [special |-> << Mach("X86", 2, 0, "S0", 0), Mach("X86", 3, 0, "S0", 1),
                    Mach("ARM", 2, 0, "S5", 1) >>,
     fillers |-> 0]

\* An X86 machine, POWER fillers, and an ARM machine that is last in energy
\* order: with more than active_machines machines it gets no VM at Init.
ClusterLarge(last_state) ==
    [special |-> << Mach("X86", 2, 0, "S0", 0), Mach("ARM", 2, 0, last_state, 1000) >>,
     fillers |-> NumFillers]

\* One X86 machine with memory for more than MAX_TASKS_PER_VM tasks, then a
\* second one.
ClusterRoomy ==
    [special |-> << Mach("X86", 64, 0, "S0", 0), Mach("X86", 64, 0, "S0", 1) >>,
     fillers |-> 0]

\* Six X86 machines in ascending order of energy: machine 0 holds three
\* tasks that fill machines 1..3 exactly when moved, machine 4 one task,
\* machine 5 the two largest tasks.
ClusterChain ==
    [special |-> << Mach("X86", 16, 0, "S0", 0), Mach("X86", 5, 0, "S0", 1),
                    Mach("X86", 5, 0, "S0", 2), Mach("X86", 5, 0, "S0", 3),
                    Mach("X86", 20, 0, "S0", 4), Mach("X86", 108, 0, "S0", 5) >>,
     fillers |-> 0]

ClusterSize(c) == Len(c.special) + c.fillers

MachineOf(c, i) ==
    IF i < Len(c.special) THEN c.special[i + 1]
    ELSE Mach("POWER", 4, 0, "S0", 10 + i)

WorkMixed ==
    << Task("X86", "LINUX", 1), Task("X86", "LINUX", 2), Task("ARM", "LINUX", 1),
       Task("X86", "LINUX", 2) >>

WorkSwap ==
    << Task("X86", "LINUX", 2), Task("X86", "LINUX", 1), Task("X86", "WIN", 1),
       Task("X86", "LINUX", 3) >>

WorkArm ==
    << Task("ARM", "LINUX", 1), Task("X86", "WIN", 1), Task("ARM", "AIX", 2) >>

\* A task whose memory makes machine_mem_usage[m] + taskMem wrap.
WorkHuge ==
    << Task("X86", "LINUX", 1), Task("X86", "LINUX", UnsignedModulus - 1) >>

WorkUniform == [i \in 1 .. ManyTasks |-> Task("X86", "LINUX", 1)]

WorkChain ==
    << Task("X86", "LINUX", 5), Task("X86", "LINUX", 5), Task("X86", "LINUX", 5),
       Task("X86", "LINUX", 6), Task("X86", "LINUX", 16), Task("X86", "LINUX", 17) >>

Scenarios ==
    { << ClusterTight, WorkMixed >>, << ClusterTight, WorkSwap >>,
      << ClusterTight, WorkHuge >>,
      << ClusterLarge("S0i1"), WorkArm >>, << ClusterLarge("S5"), WorkArm >>,
      << ClusterLarge("S0"), WorkArm >>,
      << ClusterLarge("S5"), WorkSwap >>,
      << ClusterRoomy, WorkUniform >>,
      << ClusterChain, WorkChain >> }

-----------------------------------------------------------------------------
(* Queries of the simulator. *)

NumTasks == Len(taskInfo)

GetTaskMemory(t) == taskInfo[t + 1].mem

RequiredCPUType(t) == taskInfo[t + 1].cpu

RequiredVMType(t) == taskInfo[t + 1].vm

Machine_GetTotal == Cardinality(DOMAIN machines)

Machines == 0 .. (Machine_GetTotal - 1)

Machine_GetEnergy(m) == machines[m].energy

\* active_vms and active_tasks of Machine_GetInfo(m): the VMs attached to m and
\* the tasks on them, as the simulator has them (hosts h, tasks-per-VM tk).
ActiveVMs(h, m) == Cardinality({v \in DOMAIN h : h[v] = m})

ActiveTasks(h, tk, m) ==
    Cardinality(UNION {tk[v] : v \in {w \in DOMAIN h : h[w] = m}})

\* HIGH_PRIORITY for the task ids 0 and 64, MID_PRIORITY otherwise.
PriorityOf(t) == IF t = 0 \/ t = 64 THEN "HIGH_PRIORITY" ELSE "MID_PRIORITY"

\* An entry of the trace: an outbound call or a step of the latest handler.
Ev(op, m, t, x, n) == [op |-> op, m |-> m, t |-> t, x |-> x, n |-> n]

EmptyFn == [x \in {} |-> 0]

-----------------------------------------------------------------------------
(* SortMachinesByEnergy: std::sort by ascending energy.  std::sort is not   *)
(* stable, so each order that is ascending in energy is a possible result.  *)

RECURSIVE EnergyOrders(_, _)
EnergyOrders(info, S) ==
    IF S = {} THEN { << >> }
    ELSE LET low == {m \in S : \A k \in S : info[m].energy <= info[k].energy}
         IN UNION { { << m >> \o rest : rest \in EnergyOrders(info, S \ {m}) } : m \in low }

SortMachinesByEnergy(info) == EnergyOrders(info, Machines)

-----------------------------------------------------------------------------
(* The state after static construction: empty vectors and maps; the         *)
(* simulator holds a cluster and a workload.                                *)

Init ==
    /\ \E sc \in Scenarios :
         /\ machines = [m \in 0 .. (ClusterSize(sc[1]) - 1) |->
                          [cpu |-> MachineOf(sc[1], m).cpu,
                           memory_size |-> MachineOf(sc[1], m).memory_size,
                           memory_used |-> MachineOf(sc[1], m).memory_used,
                           energy |-> MachineOf(sc[1], m).energy]]
         /\ s_state = [m \in 0 .. (ClusterSize(sc[1]) - 1) |->
                         MachineOf(sc[1], m).s_state]
         /\ taskInfo = sc[2]
    /\ pending = [m \in DOMAIN s_state |-> "none"]
    /\ sorted_machines = << >>
    /\ machine_util = EmptyFn
    /\ machine_mem_usage = EmptyFn
    /\ machine_mem_capacity = EmptyFn
    /\ vms = << >>
    /\ vm_location = EmptyFn
    /\ vm_tasks = EmptyFn
    /\ offloading_in_progress = FALSE
    /\ migrating = FALSE
    /\ idle_start_time = EmptyFn
    /\ vmHost = EmptyFn
    /\ vmKind = EmptyFn
    /\ simTasks = EmptyFn
    /\ arrived = 0
    /\ done = {}
    /\ warnings = 0
    /\ clock = 0
    /\ phase = "constructed"
    /\ trace = << >>

-----------------------------------------------------------------------------
(* The handlers run on a record st of everything a handler can change:      *)
(*   util, usage, vms, loc, tasks, off  the scheduler's machine_util,       *)
(*       machine_mem_usage, vms, vm_location, vm_tasks and                  *)
(*       offloading_in_progress;                                            *)
(*   pending, vmHost, vmKind, simTasks  the simulator's side;               *)
(*   trace   the calls and steps of this handler;                           *)
(*   depth   the OffloadTaskFromMachine calls in progress;                  *)
(*   iters   the vector iterators those calls hold: [vm, idx, inval], idx   *)
(*       the position in vm_tasks[vm], inval set once the vector was        *)
(*       changed under the iterator;                                        *)
(*   ubc, crashed  the outcome chosen for the use of an invalidated         *)
(*       iterator, and whether the handler ended in it.                     *)

Emit(st, e) == [st EXCEPT !.trace = Append(@, e)]

Crash(st) == [st EXCEPT !.crashed = TRUE]

\* unsigned a + b.
UAdd(a, b) == (a + b) % UnsignedModulus

\* (a >= b) ? a - b : 0, lines 69 and 206-209.
SatSub(a, b) == IF a >= b THEN a - b ELSE 0

\* Machine_SetState(m, s) on behalf of task t: the simulator starts the state
\* change; Machine_GetInfo keeps reporting the old s_state until the simulator
\* calls StateChangeComplete.
Machine_SetState(st, m, s, t) ==
    [st EXCEPT !.pending[m] = IF s_state[m] = s THEN @ ELSE s,
               !.trace = Append(@, Ev("Machine_SetState", m, t, s, 0))]

\* VM_Create(type, cpu) followed by VM_Attach(vm, m): the new VM's id is the
\* number of VMs created before it.
NextVMId(st) == Cardinality(DOMAIN st.vmKind)

VM_CreateAttach(st, type, cpu, m) ==
    [st EXCEPT !.vmKind = @ @@ (NextVMId(st) :> [vm_type |-> type, cpu |-> cpu]),
               !.vmHost = @ @@ (NextVMId(st) :> m),
               !.simTasks = @ @@ (NextVMId(st) :> {})]

VM_AddTask(st, vm, t, priority) ==
    [st EXCEPT !.simTasks[vm] = @ \cup {t},
               !.trace = Append(@, Ev("VM_AddTask", st.vmHost[vm], t, priority, vm))]

VM_RemoveTask(st, vm, t) == [st EXCEPT !.simTasks[vm] = @ \ {t}]

\* vm_tasks[vm].push_back(t): may reallocate the vector, which invalidates the
\* iterators into it.
PushBack(st, vm, t) ==
    [st EXCEPT !.tasks[vm] = Append(@, t),
               !.iters = [k \in DOMAIN @ |->
                            IF @[k].vm = vm THEN [@[k] EXCEPT !.inval = TRUE] ELSE @[k]]]

\* tasks.erase at position pos: invalidates the iterators at or after pos.
EraseAt(st, vm, pos) ==
    [st EXCEPT !.tasks[vm] = SubSeq(@, 1, pos - 1) \o SubSeq(@, pos + 1, Len(@)),
               !.iters = [k \in DOMAIN @ |->
                            IF @[k].vm = vm /\ @[k].idx >= pos
                            THEN [@[k] EXCEPT !.inval = TRUE] ELSE @[k]]]

\* A faulty MemoryFits, without the test of line 96: C1 fails with it.
MemoryFits_Unchecked(st, m, taskMem) == TRUE

\* Line 96: the task's memory fits on m.
MemoryFits(st, m, taskMem) ==
    ~ (UAdd(st.usage[m], taskMem) > machine_mem_capacity[m])

\* A faulty CPUMatches, without the test of line 98: C3 fails with it.
CPUMatches_Any(m, task_id) == TRUE

\* Line 98: the machine's CPU type is the one the task requires.
CPUMatches(m, task_id) == machines[m].cpu = RequiredCPUType(task_id)

MachineHasCapacity(st, m) == st.util[m] < MAX_TASKS_PER_VM

\* Lines 96-102: the machine passes every test of the scan.
Qualifies(st, m, task_id, original_machine) ==
    /\ MemoryFits(st, m, GetTaskMemory(task_id))
    /\ CPUMatches(m, task_id)
    /\ m # original_machine
    /\ MachineHasCapacity(st, m)

\* Line 104: the VMs of the list that are on m and have room, by position.
VMsWithRoom(st, m) ==
    {k \in 1 .. Len(st.vms) :
        st.loc[st.vms[k]] = m /\ Len(st.tasks[st.vms[k]]) < MAX_TASKS_PER_VM}

\* Lines 105-108 and 117-120: the task goes on vm, which is on m.
AttachTask(st, vm, m, task_id, priority) ==
    LET s1 == PushBack(VM_AddTask(st, vm, task_id, priority), vm, task_id)
    IN [s1 EXCEPT !.util[m] = UAdd(@, 1),
                  !.usage[m] = UAdd(@, GetTaskMemory(task_id))]

\* Lines 103-121: the first VM with room on m, or else a new VM on m.
AssignOnMachine(st, m, task_id, priority) ==
    LET room == VMsWithRoom(st, m)
    IN IF room # {}
       THEN LET vm == st.vms[CHOOSE k \in room : \A j \in room : k <= j]
            IN [st |-> AttachTask(st, vm, m, task_id, priority), vm |-> vm]
       ELSE LET new_vm == NextVMId(st)
                s1 == VM_CreateAttach(st, RequiredVMType(task_id),
                                      RequiredCPUType(task_id), m)
                s2 == [s1 EXCEPT !.loc = @ @@ (new_vm :> m),
                                 !.vms = Append(@, new_vm),
                                 !.tasks = @ @@ (new_vm :> << >>)]
            IN [st |-> AttachTask(s2, new_vm, m, task_id, priority), vm |-> new_vm]

\* Lines 91-123: one pass over sorted_machines from position k.
RECURSIVE ScanMachines(_, _, _, _, _)
ScanMachines(st, k, task_id, priority, original_machine) ==
    IF k > Len(sorted_machines) THEN [st |-> st, vm |-> INVALID_VM]
    ELSE LET m == sorted_machines[k]
             s1 == IF s_state[m] = "S5"
                   THEN Machine_SetState(st, m, "S0", task_id) ELSE st
         IN IF Qualifies(s1, m, task_id, original_machine)
            THEN AssignOnMachine(s1, m, task_id, priority)
            ELSE ScanMachines(s1, k + 1, task_id, priority, original_machine)

\* Lines 128-136: the first machine of sorted_machines with the greatest
\* ratio usage / capacity among the ratios in (worst, 1.0), worst starting at
\* 0.0.  The ratios wn / wd and usage / cap are compared exactly.
RECURSIVE WorstRatio(_, _, _, _, _)
WorstRatio(st, k, wn, wd, target) ==
    IF k > Len(sorted_machines) THEN target
    ELSE LET m == sorted_machines[k]
             n == st.usage[m]
             d == IF machine_mem_capacity[m] # 0 THEN machine_mem_capacity[m] ELSE 1
         IN IF n * wd > wn * d /\ n < d
            THEN WorstRatio(st, k + 1, n, d, m)
            ELSE WorstRatio(st, k + 1, wn, wd, target)

\* A faulty OffloadTarget, which does not keep the greatest ratio and takes the
\* first machine with a ratio in (0.0, 1.0): C14 fails with it.
OffloadTarget_First(st) ==
    LET C == {k \in 1 .. Len(sorted_machines) :
                 /\ st.usage[sorted_machines[k]] > 0
                 /\ st.usage[sorted_machines[k]] <
                        (IF machine_mem_capacity[sorted_machines[k]] # 0
                         THEN machine_mem_capacity[sorted_machines[k]] ELSE 1)}
    IN IF C = {} THEN NoMachine
       ELSE sorted_machines[CHOOSE k \in C : \A j \in C : k <= j]

OffloadTarget(st) == WorstRatio(st, 1, 0, 1, NoMachine)

\* Where task t is in st, for the trace: the VMs whose list holds it and the
\* VMs the simulator has it on, with their machines, and the usage of the
\* machine an offload took it from (before and after).
Placement(st, t, usage_before, usage_after) ==
    [holders |-> {v \in DOMAIN st.tasks :
                     \E k \in 1 .. Len(st.tasks[v]) : st.tasks[v][k] = t},
     simHolders |-> {v \in DOMAIN st.simTasks : t \in st.simTasks[v]},
     loc |-> st.loc, vmHost |-> st.vmHost,
     usage_before |-> usage_before, usage_after |-> usage_after]

\* Line 154-155.
PlaceFailed(st, task_id) ==
    [st |-> Emit(st, Ev("SimOutput", NoMachine, task_id, "Forced SLA violation", 0)),
     vm |-> INVALID_VM]

\* Lines 66-74: the offloaded task leaves its old VM.  The iterator it erases
\* at is the one held since before the placement.
\* An "offload_commit" entry of the trace records what lines 66-69 did: the
\* usage of m before and after, and where the task is afterwards.
OffloadCommit(st, vm, it, task_to_offload, m) ==
    LET s1 == EraseAt(VM_RemoveTask(st, vm, task_to_offload), vm, it.idx)
        s2 == [s1 EXCEPT !.usage[m] = SatSub(@, GetTaskMemory(task_to_offload))]
    IN Emit(Emit(s2, Ev("SimOutput", m, task_to_offload, "Offloaded", 0)),
            Ev("offload_commit", m, task_to_offload,
               Placement(s2, task_to_offload, st.usage[m], s2.usage[m]), vm))

RECURSIVE PlaceAttempts(_, _, _, _, _)
RECURSIVE OffloadTasks(_, _, _, _, _)

\* Lines 45-82.  The VMs on m are visited in the order of their ids (the
\* order of an unordered_map is not specified).
OffloadTaskFromMachine(st, m) ==
    LET candidate_vms == SelectSeq(st.vms, LAMBDA v : st.loc[v] = m)
        s0 == Emit([st EXCEPT !.depth = @ + 1],
                   Ev("OffloadTaskFromMachine", m, -1, "enter", st.depth + 1))
        r == OffloadTasks(s0, m, candidate_vms, 1, 1)
    IN [st |-> [r.st EXCEPT !.depth = @ - 1], success |-> r.success]

\* An "offload_skip" entry of the trace records a task that line 63 could not
\* place (line 76) and where it is then.
\* Lines 55-79: the loops over candidate_vms (position ci) and over the tasks
\* of the VM (iterator at position i).
OffloadTasks(st, m, candidate_vms, ci, i) ==
    IF st.crashed \/ ci > Len(candidate_vms) THEN [st |-> st, success |-> FALSE]
    ELSE LET vm == candidate_vms[ci]
             n == Len(st.tasks[vm])
         IN IF i = n + 1 THEN OffloadTasks(st, m, candidate_vms, ci + 1, 1)
            ELSE IF i > n + 1 THEN [st |-> Crash(st), success |-> FALSE]
            ELSE
              LET t == st.tasks[vm][i]
                  s1 == [st EXCEPT !.iters = Append(@, [vm |-> vm, idx |-> i,
                                                        inval |-> FALSE])]
                  r == PlaceAttempts(s1, t, PriorityOf(t), m, 0)
                  it == r.st.iters[Len(r.st.iters)]
                  s2 == [r.st EXCEPT !.iters = SubSeq(@, 1, Len(@) - 1)]
              IN IF r.st.crashed THEN [st |-> r.st, success |-> FALSE]
                 ELSE IF it.inval /\ s2.ubc = "crash"
                      THEN [st |-> Crash(s2), success |-> FALSE]
                 ELSE IF r.vm # INVALID_VM
                      THEN IF it.idx > Len(s2.tasks[vm])
                           THEN [st |-> Crash(s2), success |-> FALSE]
                           ELSE [st |-> OffloadCommit(s2, vm, it, t, m),
                                 success |-> TRUE]
                 ELSE OffloadTasks(
                          Emit(s2, Ev("offload_skip", m, t,
                                      Placement(s2, t, s2.usage[m], s2.usage[m]), vm)),
                          m, candidate_vms, ci, i + 1)

\* Lines 90-155: the attempts of one placement, from attempt number attempt.
\* An "offload_target" entry of the trace records the machine lines 128-136
\* chose (NoMachine if none) and machine_mem_usage as it was then.
PlaceAttempts(st, task_id, priority, original_machine, attempt) ==
    IF st.crashed THEN [st |-> st, vm |-> INVALID_VM]
    ELSE IF attempt >= max_attempts THEN PlaceFailed(st, task_id)
    ELSE
      LET sc == ScanMachines(Emit(st, Ev("scan", original_machine, task_id, "", attempt)),
                             1, task_id, priority, original_machine)
      IN IF sc.vm # INVALID_VM THEN sc
         ELSE IF sc.st.off THEN PlaceFailed(sc.st, task_id)
         ELSE
           LET s0 == [sc.st EXCEPT !.off = TRUE]
               target == OffloadTarget(s0)
               s1 == Emit(s0, Ev("offload_target", target, task_id, s0.usage, attempt))
           IN IF target = NoMachine
              THEN PlaceFailed([s1 EXCEPT !.off = FALSE], task_id)
              ELSE
                LET r == OffloadTaskFromMachine(s1, target)
                    s2 == [r.st EXCEPT !.off = FALSE]
                IN IF r.st.crashed THEN [st |-> r.st, vm |-> INVALID_VM]
                   ELSE IF r.success
                        THEN PlaceAttempts(s2, task_id, priority, original_machine,
                                           attempt + 1)
                        ELSE PlaceFailed(s2, task_id)

PlaceTask_PMapper(st, task_id, priority, original_machine) ==
    PlaceAttempts(st, task_id, priority, original_machine, 0)

-----------------------------------------------------------------------------
(* The handlers. *)

\* The record a handler starts on; ubc is what the use of an invalidated
\* iterator does in this run of the handler: "continue" (the iterator still
\* addresses the same position of the vector) or "crash".
Start(ubc) ==
    [util |-> machine_util, usage |-> machine_mem_usage, vms |-> vms,
     loc |-> vm_location, tasks |-> vm_tasks, off |-> offloading_in_progress,
     pending |-> pending, vmHost |-> vmHost, vmKind |-> vmKind,
     simTasks |-> simTasks, trace |-> << >>, depth |-> 0, iters |-> << >>,
     ubc |-> ubc, crashed |-> FALSE]

UBChoices == {"continue", "crash"}

\* The handler returns (or the process ends): st becomes the state.
Finish(st) ==
    /\ machine_util' = st.util
    /\ machine_mem_usage' = st.usage
    /\ vms' = st.vms
    /\ vm_location' = st.loc
    /\ vm_tasks' = st.tasks
    /\ offloading_in_progress' = st.off
    /\ pending' = st.pending
    /\ vmHost' = st.vmHost
    /\ vmKind' = st.vmKind
    /\ simTasks' = st.simTasks
    /\ trace' = st.trace
    /\ phase' = IF st.crashed THEN "crashed" ELSE "running"

\* Lines 171-180: a LINUX VM on each of the first active_machines machines of
\* the order.
RECURSIVE InitVMs(_, _, _)
InitVMs(st, order, i) ==
    IF ~ (i < active_machines /\ i < Len(order)) THEN st
    ELSE LET m == order[i + 1]
             vm == NextVMId(st)
             s1 == VM_CreateAttach(Machine_SetState(st, m, "S0", -1),
                                   "LINUX", machines[m].cpu, m)
         IN InitVMs([s1 EXCEPT !.loc = @ @@ (vm :> m),
                               !.vms = Append(@, vm),
                               !.tasks = @ @@ (vm :> << >>)],
                    order, i + 1)

\* Scheduler::Init, lines 159-182.
Scheduler_Init ==
    /\ phase = "constructed"
    /\ \E order \in SortMachinesByEnergy(machines) :
         /\ sorted_machines' = order
         /\ machine_mem_capacity' =
                [m \in 0 .. (Machine_GetTotal - 1) |-> machines[m].memory_size]
         /\ Finish(InitVMs(
                [Start("continue") EXCEPT
                    !.util = [m \in 0 .. (Machine_GetTotal - 1) |-> 0],
                    !.usage = [m \in 0 .. (Machine_GetTotal - 1) |->
                                 machines[m].memory_used]],
                order, 0))
    /\ UNCHANGED << migrating, idle_start_time, machines, s_state, taskInfo,
                    arrived, done, warnings, clock >>

\* Scheduler::NewTask, lines 184-192, for the next task of the workload.
NewTask(task_id, ubc) ==
    /\ phase = "running"
    /\ task_id = arrived
    /\ task_id < NumTasks
    /\ LET r == PlaceTask_PMapper(Start(ubc), task_id, PriorityOf(task_id), NoMachine)
       IN Finish(IF r.vm = INVALID_VM /\ ~ r.st.crashed
                 THEN Emit(r.st, Ev("SimOutput", NoMachine, task_id, "SLA violation", 0))
                 ELSE r.st)
    /\ arrived' = arrived + 1
    /\ UNCHANGED << sorted_machines, machine_mem_capacity, migrating,
                    idle_start_time, machines, s_state, taskInfo, done, warnings, clock >>

\* Lines 197-212: the first VM (by id; a task is on one VM at most unless an
\* iterator went wrong) whose list holds the task.
PositionOf(seq, x) == CHOOSE k \in 1 .. Len(seq) : seq[k] = x /\ \A j \in 1 .. (k - 1) : seq[j] # x

HoldersOf(st, task_id) ==
    {v \in DOMAIN st.tasks : \E k \in 1 .. Len(st.tasks[v]) : st.tasks[v][k] = task_id}

\* A faulty RecordCompletion, which does not test the result of find (line
\* 200) and books the completion on the first VM of the list: C16 fails with it.
RecordCompletion_Unchecked(st, task_id) ==
    LET holders == HoldersOf(st, task_id)
        vm == IF holders # {} THEN CHOOSE v \in holders : \A w \in holders : v <= w
              ELSE st.vms[1]
        m == st.loc[vm]
        s1 == IF holders # {}
              THEN EraseAt(st, vm, PositionOf(st.tasks[vm], task_id)) ELSE st
    IN [s1 EXCEPT !.util[m] = IF @ > 0 THEN @ - 1 ELSE @,
                  !.usage[m] = SatSub(@, GetTaskMemory(task_id))]

\* Lines 197-212.  A "TaskComplete" entry of the trace marks a completion
\* whose task was not found.
RecordCompletion(st, task_id) ==
    LET holders == HoldersOf(st, task_id)
    IN IF holders = {}
       THEN Emit(st, Ev("TaskComplete", NoMachine, -1, "not found", 0))
       ELSE LET vm == CHOOSE v \in holders : \A w \in holders : v <= w
                m == st.loc[vm]
                s1 == EraseAt(st, vm, PositionOf(st.tasks[vm], task_id))
            IN [s1 EXCEPT !.util[m] = IF @ > 0 THEN @ - 1 ELSE @,
                          !.usage[m] = SatSub(@, GetTaskMemory(task_id))]

\* The simulator ends the task (it leaves the VM it ran on) and calls
\* Scheduler::TaskComplete, lines 194-213.
TaskComplete(task_id) ==
    /\ phase = "running"
    /\ task_id \in 0 .. (arrived - 1)
    /\ Cardinality(done \cup {task_id}) <= MaxCompletions
    /\ Finish(RecordCompletion(
           [Start("continue") EXCEPT
               !.simTasks = [v \in DOMAIN simTasks |-> simTasks[v] \ {task_id}]],
           task_id))
    /\ done' = done \cup {task_id}
    /\ UNCHANGED << sorted_machines, machine_mem_capacity, migrating,
                    idle_start_time, machines, s_state, taskInfo, arrived, warnings,
                    clock >>

\* A faulty MachineBusy, looking at the tasks and not at the VMs: C10 fails
\* with it.
MachineBusy_TasksOnly(m) == ActiveTasks(vmHost, simTasks, m) > 0

\* Line 220: Machine_GetInfo(m) reports tasks or VMs on the machine.
MachineBusy(m) ==
    ActiveTasks(vmHost, simTasks, m) > 0 \/ ActiveVMs(vmHost, m) > 0

\* A faulty GraceElapsed, without the comparison of line 229: C9 fails with it.
GraceElapsed_Always(now, start) == TRUE

\* Line 229: the grace period is over for a timer armed at start.
GraceElapsed(now, start) == now - start >= IDLE_GRACE_PERIOD

\* Line 231: the machine, queried again, is still idle and in S0i1.
StillIdle(m) ==
    /\ ActiveTasks(vmHost, simTasks, m) = 0
    /\ ActiveVMs(vmHost, m) = 0
    /\ s_state[m] = "S0i1"

\* Lines 218-241 for the machines of sorted_machines from position k on; pc is
\* [idle, pending, trace]: idle_start_time, and what the check commands and
\* logs.  An "idle_erase" entry marks a timer that line 221 removed.
RECURSIVE CheckMachines(_, _, _)
CheckMachines(pc, k, now) ==
    IF k > Len(sorted_machines) THEN pc
    ELSE
      LET m == sorted_machines[k]
          without == [x \in DOMAIN pc.idle \ {m} |-> pc.idle[x]]
          next ==
            IF MachineBusy(m)
            THEN [pc EXCEPT !.idle = without,
                            !.trace = IF m \in DOMAIN pc.idle
                                      THEN Append(@, Ev("idle_erase", m, -1, "busy", 0))
                                      ELSE @]
            ELSE IF m \notin DOMAIN pc.idle
            THEN [pc EXCEPT !.idle = @ @@ (m :> now)]
            ELSE IF GraceElapsed(now, pc.idle[m])
            THEN IF StillIdle(m)
                 THEN [pc EXCEPT !.idle = without,
                                 !.pending[m] = "S5",
                                 !.trace = Append(@, Ev("Machine_SetState", m, -1, "S5", 0))]
                 ELSE [pc EXCEPT !.idle = without,
                                 !.trace = Append(@, Ev("SimOutput", m, -1,
                                                        "ABORT SHUTDOWN", 0))]
            ELSE pc
      IN CheckMachines(next, k + 1, now)

\* Scheduler::PeriodicCheck, lines 215-242, one or two ticks after the latest.
PeriodicCheck(now) ==
    /\ phase = "running"
    /\ now > clock
    /\ now <= MaxTicks * TickLen
    /\ LET pc == CheckMachines([idle |-> idle_start_time, pending |-> pending,
                                trace |-> << >>], 1, now)
       IN /\ idle_start_time' = pc.idle
          /\ pending' = pc.pending
          /\ trace' = pc.trace
    /\ clock' = now
    /\ UNCHANGED << sorted_machines, machine_util, machine_mem_usage,
                    machine_mem_capacity, vms, vm_location, vm_tasks,
                    offloading_in_progress, migrating, machines, s_state, vmHost,
                    vmKind, simTasks, taskInfo, arrived, done, warnings, phase >>

\* Scheduler::MigrationComplete, lines 244-250: VM_GetInfo(vm_id).machine_id is
\* the machine the simulator has the VM on.
MigrationComplete(vm_id) ==
    /\ phase = "running"
    /\ vm_id \in DOMAIN vmHost
    /\ migrating' = FALSE
    /\ vm_location' = [v \in DOMAIN vm_location \cup {vm_id} |->
                          IF v = vm_id THEN vmHost[vm_id] ELSE vm_location[v]]
    /\ trace' = << >>
    /\ UNCHANGED << sorted_machines, machine_util, machine_mem_usage,
                    machine_mem_capacity, vms, vm_tasks, offloading_in_progress,
                    idle_start_time, machines, s_state, pending, vmHost, vmKind,
                    simTasks, taskInfo, arrived, done, warnings, clock, phase >>

\* MemoryWarning, lines 270-274, for a machine that runs tasks.
MemoryWarning(machine_id, ubc) ==
    /\ phase = "running"
    /\ ActiveTasks(vmHost, simTasks, machine_id) > 0
    /\ warnings < MaxWarnings
    /\ warnings' = warnings + 1
    /\ Finish(OffloadTaskFromMachine(Start(ubc), machine_id).st)
    /\ UNCHANGED << sorted_machines, machine_mem_capacity, migrating,
                    idle_start_time, machines, s_state, taskInfo, arrived,
                    done, clock >>

\* The simulator finishes the state change of a machine and calls
\* StateChangeComplete, line 293, which does nothing.
StateChangeComplete(machine_id) ==
    /\ phase = "running"
    /\ pending[machine_id] # "none"
    /\ s_state' = [s_state EXCEPT ![machine_id] = pending[machine_id]]
    /\ pending' = [pending EXCEPT ![machine_id] = "none"]
    /\ trace' = << >>
    /\ UNCHANGED << schedVars, machines, vmHost, vmKind, simTasks, taskInfo,
                    arrived, done, warnings, clock, phase >>

Next ==
    \/ Scheduler_Init
    \/ \E ubc \in UBChoices : NewTask(arrived, ubc)
    \/ \E t \in 0 .. (NumTasks - 1) : TaskComplete(t)
    \/ \E k \in 1 .. 2 : PeriodicCheck(clock + k * TickLen)
    \/ \E v \in DOMAIN vmHost : MigrationComplete(v)
    \/ \E m \in Machines, ubc \in UBChoices : MemoryWarning(m, ubc)
    \/ \E m \in Machines : StateChangeComplete(m)

Spec == Init /\ [][Next]_vars

-----------------------------------------------------------------------------
(* What the claims speak of. *)

Running == phase = "running"

\* The tasks the scheduler has on the VMs located on machine m.
TasksOn(m) ==
    UNION { {vm_tasks[v][k] : k \in 1 .. Len(vm_tasks[v])} :
            v \in {w \in DOMAIN vm_tasks : vm_location[w] = m} }

\* The tasks the scheduler has on some VM.
Assigned == UNION { {vm_tasks[v][k] : k \in 1 .. Len(vm_tasks[v])} : v \in DOMAIN vm_tasks }

\* The tasks that arrived and have not completed.
Live == (0 .. (arrived - 1)) \ done

\* The current state as the record the procedures read.
Now == Start("continue")

\* The tasks that arrived, have not completed and are on no VM.
Waiting == Live \ Assigned

\* Some machine passes every test of the scan for task u.
Placeable(u) == \E m \in Machines : Qualifies(Now, m, u, NoMachine)

\* The entries of a trace that command machine state s.
Commands(tr, s) ==
    {k \in 1 .. Len(tr) : tr[k].op = "Machine_SetState" /\ tr[k].x = s}

\* Position of machine m in sorted_machines.
Rank(m) == CHOOSE k \in 1 .. Len(sorted_machines) : sorted_machines[k] = m

\* The entries of the latest handler's trace with the given op.
Entries(op) == {trace[k] : k \in {j \in 1 .. Len(trace) : trace[j].op = op}}

-----------------------------------------------------------------------------
\* C1: after every handler, the memory the scheduler counts as used on a
\* machine is at most the machine's memory capacity (the inputs have
\* memory_used <= memory_size at Init).
C1_MemoryWithinCapacity ==
    \A m \in DOMAIN machine_mem_usage :
        machine_mem_usage[m] <= machine_mem_capacity[m]

\* C1's case: the latest handler put a task on a machine after passing over a
\* machine of the right CPU type, earlier in the order, where the task's memory
\* did not fit.
C1_Witness ==
    \E e \in Entries("VM_AddTask") : \E m \in Machines :
        /\ Rank(m) < Rank(e.m)
        /\ CPUMatches(m, e.t)
        /\ machine_mem_usage[m] > 0
        /\ machine_mem_usage[m] + GetTaskMemory(e.t) > machine_mem_capacity[m]

\* C2: no VM ever holds more than 10 tasks, in the scheduler's list of the VM
\* and on the VM itself.
C2_TasksPerVMWithinLimit ==
    /\ \A v \in DOMAIN vm_tasks : Len(vm_tasks[v]) <= 10
    /\ \A v \in DOMAIN simTasks : Cardinality(simTasks[v]) <= 10

\* C2's case: a VM is full and a further task went to another VM.
C2_Witness ==
    \E v \in DOMAIN vm_tasks :
        /\ Len(vm_tasks[v]) = 10
        /\ \E e \in Entries("VM_AddTask") : e.n # v

\* C3: every task the scheduler has on a VM is on a machine of the CPU type the
\* task requires, and so was every task the latest handler attached.
C3_CPUTypeMatches ==
    /\ \A v \in DOMAIN vm_tasks : \A k \in 1 .. Len(vm_tasks[v]) :
           machines[vm_location[v]].cpu = RequiredCPUType(vm_tasks[v][k])
    /\ \A v \in DOMAIN simTasks : \A t \in simTasks[v] :
           machines[vmHost[v]].cpu = RequiredCPUType(t)
    /\ \A e \in Entries("VM_AddTask") : machines[e.m].cpu = RequiredCPUType(e.t)

\* C3's case: the latest handler attached a task after passing over a machine
\* of another CPU type that had memory and room for it.
C3_Witness ==
    \E e \in Entries("VM_AddTask") : \E m \in Machines :
        /\ Rank(m) < Rank(e.m)
        /\ ~ CPUMatches(m, e.t)
        /\ MemoryFits(Now, m, GetTaskMemory(e.t))
        /\ MachineHasCapacity(Now, m)

\* C4: between handlers, every task that has arrived and has not completed is
\* in exactly one of the deferral queue and the VMs.  The scheduler's state
\* (lines 10-21) holds no queue, so for it this reads: the task is on exactly
\* one VM.
C4_LiveTaskQueuedOrAssigned ==
    Running => \A t \in Live : Cardinality(HoldersOf(Now, t)) = 1

\* C5: a TaskComplete re-attempts the placement of the tasks that wait: when
\* it returns, the oldest task that arrived, has not completed and is on no VM
\* is not one that a machine of its CPU type has the memory and the room for.
C5_CompletionPlacesWaitingTask ==
    [][ (done' # done /\ phase' = "running" /\ Waiting' # {}) =>
          ~ Placeable(CHOOSE u \in Waiting : \A w \in Waiting : u <= w)' ]_vars

\* C6: the arrival handler attaches no task on a machine that reports S5: the
\* tasks on such a machine are the same after NewTask as before.
C6_NoAttachOnPoweredOffMachine ==
    [][ arrived' # arrived =>
          \A m \in Machines : s_state[m] = "S5" => TasksOn(m)' \subseteq TasksOn(m) ]_vars

\* C7: NewTask commands a machine on for the arriving task only if the
\* machine's CPU type is the task's and no machine that is not powered off
\* qualified for the task when it arrived.
C7_WakeOnlyWhenNeeded ==
    [][ arrived' # arrived =>
          \A k \in Commands(trace', "S0") :
              trace'[k].t = arrived =>
                  /\ CPUMatches(trace'[k].m, arrived)
                  /\ ~ \E a \in Machines :
                         s_state[a] # "S5" /\ Qualifies(Now, a, arrived, NoMachine) ]_vars

\* C8: a placement (t >= 0 is the task it places) commands no machine on whose
\* earlier power-on has not completed, and commands no machine on twice.
C8_NoDuplicateWake ==
    [][ \A k \in Commands(trace', "S0") :
            trace'[k].t >= 0 =>
                /\ pending[trace'[k].m] # "S0"
                /\ \A j \in Commands(trace', "S0") :
                       trace'[j].m = trace'[k].m => j = k ]_vars

\* C9: a machine is commanded to S5 only by PeriodicCheck, only when its idle
\* timer was armed at least IDLE_GRACE_PERIOD before, and only when it reports
\* no task and no VM.
C9_PowerOffOnlyAfterIdleGrace ==
    [][ \A k \in Commands(trace', "S5") :
            LET m == trace'[k].m
            IN /\ clock' > clock
               /\ m \in DOMAIN idle_start_time
               /\ clock' - idle_start_time[m] >= IDLE_GRACE_PERIOD
               /\ ActiveTasks(vmHost, simTasks, m) = 0
               /\ ActiveVMs(vmHost, m) = 0 ]_vars

\* C9's case: the latest PeriodicCheck commanded a machine to S5.
C9_Witness == Commands(trace, "S5") # {}

\* C10: a machine whose idle timer is armed and that has been given a task
\* since (it hosts a VM: a timer is armed only on a machine without VMs, and a
\* placement on such a machine creates one) is not commanded to S5 by the next
\* PeriodicCheck, which clears the timer.
C10_AssignmentCancelsIdleTimer ==
    [][ clock' > clock =>
          \A m \in DOMAIN idle_start_time :
              ActiveVMs(vmHost, m) > 0 =>
                  /\ m \notin DOMAIN idle_start_time'
                  /\ \A k \in Commands(trace', "S5") : trace'[k].m # m ]_vars

\* C10's case: the latest PeriodicCheck cleared the timer of a machine that
\* was given a task after the timer was armed, and commanded nothing off.
C10_Witness ==
    /\ \E k \in 1 .. Len(trace) :
           /\ trace[k].op = "idle_erase"
           /\ machine_util[trace[k].m] > 0
           /\ trace[k].m \notin DOMAIN idle_start_time
    /\ Commands(trace, "S5") = {}

\* C11: a PeriodicCheck that finds a machine without tasks and without VMs, its
\* idle timer armed at least IDLE_GRACE_PERIOD before, commands the machine to
\* S5, whatever state other than S5 the machine reports.
C11_IdleMachinePoweredOff ==
    [][ clock' > clock =>
          \A m \in DOMAIN idle_start_time :
              ( /\ clock' - idle_start_time[m] >= IDLE_GRACE_PERIOD
                /\ ~ MachineBusy(m)
                /\ s_state[m] # "S5" ) =>
                  \E k \in Commands(trace', "S5") : trace'[k].m = m ]_vars

\* The positions of a trace where the placement of task t as a new arrival
\* starts a scan of sorted_machines.
ArrivalScans(tr, t) ==
    {k \in 1 .. Len(tr) : tr[k].op = "scan" /\ tr[k].t = t /\ tr[k].m = NoMachine}

\* The positions of a trace where OffloadTaskFromMachine is entered.
OffloadEntries(tr) == {k \in 1 .. Len(tr) : tr[k].op = "OffloadTaskFromMachine"}

\* The NewTask that made trace tr logged the SLA violation of task t.
ArrivalFailed(tr, t) ==
    \E k \in 1 .. Len(tr) :
        tr[k].op = "SimOutput" /\ tr[k].t = t /\ tr[k].x = "SLA violation"

\* C12: a NewTask call returns; the placement of the arriving task scans at
\* most 3 times and the call enters the offload procedure at most 3 times; a
\* call that fails reports the failure once, as its last step.
C12_BoundedAttempts ==
    [][ arrived' # arrived =>
          /\ phase' = "running"
          /\ Cardinality(ArrivalScans(trace', arrived)) <= 3
          /\ Cardinality(OffloadEntries(trace')) <= 3
          /\ ArrivalFailed(trace', arrived) =>
                 /\ trace'[Len(trace')].x = "SLA violation"
                 /\ arrived \notin Assigned' ]_vars

\* C12's case: the latest NewTask scanned 3 times, entered the offload
\* procedure 3 times and failed.
C12_Witness ==
    /\ arrived > 0
    /\ Cardinality(ArrivalScans(trace, arrived - 1)) = 3
    /\ Cardinality(OffloadEntries(trace)) = 3
    /\ ArrivalFailed(trace, arrived - 1)

\* C13: OffloadTaskFromMachine is never entered while another call of it is in
\* progress: every entry of the latest handler is at nesting depth 1.
C13_NoNestedOffload ==
    \A k \in OffloadEntries(trace) : trace[k].n <= 1

\* The positions of a trace where a placement chose the machine to offload.
TargetChoices(tr) == {k \in 1 .. Len(tr) : tr[k].op = "offload_target"}

\* The divisor of line 131 for machine m.
RatioDivisor(m) == IF machine_mem_capacity[m] # 0 THEN machine_mem_capacity[m] ELSE 1

\* With usage u, the ratio of machine a is below 1.0.
RatioBelowOne(u, a) == u[a] < RatioDivisor(a)

\* With usage u, the ratio of machine a is less than the ratio of machine b.
RatioLess(u, a, b) == u[a] * RatioDivisor(b) < u[b] * RatioDivisor(a)

EntriesOf(tr, op) == {tr[k] : k \in {j \in 1 .. Len(tr) : tr[j].op = op}}

\* C15: a successful offload from machine M of a task (entry e: e.m = M,
\* e.t the task, e.n its VM on M) leaves the task off that VM and on exactly
\* one VM, located on a machine other than M, for the scheduler and for the
\* simulator alike, and M's usage lower by the task's memory; a task an
\* offload could not place is still on its VM on M and nowhere else.
C15_OffloadMovesTaskOffMachine ==
    Running =>
      /\ \A e \in EntriesOf(trace, "offload_commit") :
           /\ Cardinality(e.x.holders) = 1
           /\ e.x.simHolders = e.x.holders
           /\ e.n \notin e.x.holders
           /\ \A v \in e.x.holders : e.x.loc[v] # e.m /\ e.x.vmHost[v] # e.m
           /\ e.x.usage_after + GetTaskMemory(e.t) = e.x.usage_before
      /\ \A e \in EntriesOf(trace, "offload_skip") :
           /\ e.x.holders = {e.n}
           /\ e.x.simHolders = {e.n}
           /\ e.x.loc[e.n] = e.m

\* C16: a TaskComplete for a task that is on no VM's list (never placed, or
\* completed before) changes no task list, no load count and no memory usage,
\* and returns.
C16_UntrackedCompletionIsNoOp ==
    [][ \A t \in 0 .. (arrived - 1) :
            (HoldersOf(Now, t) = {} /\ TaskComplete(t)) =>
                /\ vm_tasks' = vm_tasks
                /\ machine_util' = machine_util
                /\ machine_mem_usage' = machine_mem_usage
                /\ vms' = vms /\ vm_location' = vm_location
                /\ phase' = "running" ]_vars

\* C16's case: the latest handler was a TaskComplete for a task on no list,
\* while the lists hold other tasks and the counters are not zero.
C16_Witness ==
    /\ \E e \in EntriesOf(trace, "TaskComplete") : e.x = "not found"
    /\ Assigned # {}
    /\ \E m \in Machines : machine_util[m] > 0 /\ machine_mem_usage[m] > 0

\* The places (VM, position) of the task lists of the VMs located on m.
PlacesOn(m) ==
    UNION { {<<v, k>> : k \in 1 .. Len(vm_tasks[v])} :
            v \in {w \in DOMAIN vm_tasks : vm_location[w] = m} }

\* C17: between handlers, machine_util[m] is the number of tasks on the lists
\* of the VMs located on m.
C17_UtilCountsAttachedTasks ==
    Running => \A m \in DOMAIN machine_util : machine_util[m] = Cardinality(PlacesOn(m))

\* The places (VM, position) of the task lists that hold task t.
PlacesOf(t) ==
    UNION { {<<v, k>> : k \in {j \in 1 .. Len(vm_tasks[v]) : vm_tasks[v][j] = t}} :
            v \in DOMAIN vm_tasks }

\* C18: between handlers, a task id is at one place of one task list at most.
C18_TaskOnOneListOnce ==
    Running => \A t \in 0 .. (arrived - 1) : Cardinality(PlacesOf(t)) <= 1


\* C19: every task on a VM's task list is on a VM of the type the task
\* requires, and so is every task the latest handler attached.
C19_VMTypeMatches ==
    /\ \A v \in DOMAIN vm_tasks : \A k \in 1 .. Len(vm_tasks[v]) :
           vmKind[v].vm_type = RequiredVMType(vm_tasks[v][k])
    /\ \A e \in Entries("VM_AddTask") : vmKind[e.n].vm_type = RequiredVMType(e.t)

\* C20: a NewTask call that fails to place the arriving task leaves every
\* task list, every VM location, the per-machine task counts and memory usage
\* and the simulator's VMs as they were, and commands no machine state.
C20_FailedPlacementChangesNothing ==
    [][ (arrived' # arrived /\ ArrivalFailed(trace', arrived)) =>
            /\ vm_tasks' = vm_tasks
            /\ vm_location' = vm_location
            /\ vms' = vms
            /\ simTasks' = simTasks
            /\ vmHost' = vmHost
            /\ machine_util' = machine_util
            /\ machine_mem_usage' = machine_mem_usage
            /\ \A k \in 1 .. Len(trace') : trace'[k].op # "Machine_SetState" ]_vars
=============================================================================
